---- MODULE Spec2Model ----
(***************************************************************************)
(* Model of dnscrypt-proxy/plugin_block_name.go: the name-blocking plugin. *)
(*                                                                         *)
(* Strings are sequences of one-character strings, so that lowercasing,    *)
(* trimming, splitting and dot-stripping are computed and not assumed.     *)
(* PluginBlockName.Init is a process of its own; every request handler     *)
(* (PluginBlockName.Eval, PluginBlockNameResponse.Eval) is another, and a   *)
(* step of a process is what it does between two accesses to the shared    *)
(* engine `blockedNames`, to the audit sink or to the clock.  The global    *)
(* and its fields are read and written without synchronisation; a read     *)
(* sees the latest write of the interleaving.  dlog.Fatalf ends the        *)
(* process: after it no process takes a step.                              *)
(***************************************************************************)
EXTENDS Naturals, Sequences, FiniteSets, TLC

VARIABLES proxy, initPc, lineIdx, xBlockedNames, submitted, errlog,
          blockedNames, hs, sinkLock, auditOut, exited

vars == <<proxy, initPc, lineIdx, xBlockedNames, submitted, errlog,
          blockedNames, hs, sinkLock, auditOut, exited>>

(***************************************************************************)
(* Strings                                                                 *)
(***************************************************************************)
NL == "\n"

ToLowerChar(c) ==
    CASE c = "A" -> "a"
      [] c = "B" -> "b"
      [] c = "Q" -> "q"
      [] OTHER -> c

ToLower(s) == [i \in 1..Len(s) |-> ToLowerChar(s[i])]

StripTrailingDot(s) ==
    IF Len(s) > 0 /\ s[Len(s)] = "." THEN SubSeq(s, 1, Len(s) - 1) ELSE s

IsSpace(c) == c \in {" ", "\t"}

RECURSIVE TrimLeft(_)
TrimLeft(s) ==
    IF s # <<>> /\ IsSpace(Head(s)) THEN TrimLeft(Tail(s)) ELSE s

RECURSIVE TrimRight(_)
TrimRight(s) ==
    IF s # <<>> /\ IsSpace(s[Len(s)])
    THEN TrimRight(SubSeq(s, 1, Len(s) - 1))
    ELSE s

\* strings.TrimFunc(s, unicode.IsSpace)
TrimSpace(s) == TrimRight(TrimLeft(s))

HasPrefix(s, p) == Len(s) >= Len(p) /\ SubSeq(s, 1, Len(p)) = p

HasSuffix(s, p) ==
    Len(s) >= Len(p) /\ SubSeq(s, Len(s) - Len(p) + 1, Len(s)) = p

\* strings.Split(s, sep) for a one-character separator: always at least one
\* part, and one more part than there are separators.
RECURSIVE SplitFrom(_, _, _, _)
SplitFrom(s, sep, i, cur) ==
    IF i > Len(s) THEN <<cur>>
    ELSE IF s[i] = sep THEN <<cur>> \o SplitFrom(s, sep, i + 1, <<>>)
    ELSE SplitFrom(s, sep, i + 1, Append(cur, s[i]))

Split(s, sep) == SplitFrom(s, sep, 1, <<>>)

RECURSIVE Join(_, _)
Join(parts, sep) ==
    IF parts = <<>> THEN <<>>
    ELSE IF Len(parts) = 1 THEN parts[1]
    ELSE parts[1] \o <<sep>> \o Join(Tail(parts), sep)

(***************************************************************************)
(* WeeklyRanges: intervals of minutes of the week; start > end wraps.      *)
(***************************************************************************)
NoGate == [set |-> FALSE, ranges |-> <<>>]

Gate(wr) == [set |-> TRUE, ranges |-> wr]

InRange(r, now) ==
    IF r.start <= r.end
    THEN r.start <= now /\ now < r.end
    ELSE now >= r.start \/ now < r.end

WeeklyRangesMatch(wr, now) == \E i \in 1..Len(wr) : InRange(wr[i], now)

\* proxy.allWeeklyRanges: "w" is Monday 09:00-17:00, "n" wraps the week's end.
AllWeeklyRanges ==
    [n \in {<<"w">>, <<"n">>} |->
        IF n = <<"w">> THEN << [start |-> 540, end |-> 1020] >>
        ELSE << [start |-> 9000, end |-> 60] >>]

Instants == {0, 59, 60, 539, 540, 1019, 1020, 9000, 10079}

(***************************************************************************)
(* PatternMatcher                                                          *)
(***************************************************************************)
IsWild(c) == c \in {"*", "?"}

HasWild(s) == \E i \in 1..Len(s) : IsWild(s[i])

\* The kind of a pattern and the text it is matched by.
Classify(p) ==
    LET n == Len(p)
        lead == n >= 1 /\ p[1] = "*"
        trail == n >= 1 /\ p[n] = "*"
    IN  IF n >= 1 /\ p[1] = "=" THEN [kind |-> "Exact", body |-> Tail(p)]
        ELSE IF ~HasWild(p) THEN [kind |-> "Suffix", body |-> p]
        ELSE IF n >= 2 /\ lead /\ trail /\ ~HasWild(SubSeq(p, 2, n - 1))
             THEN [kind |-> "Substring", body |-> SubSeq(p, 2, n - 1)]
        ELSE IF lead /\ ~HasWild(Tail(p))
             THEN [kind |-> "Suffix", body |-> Tail(p)]
        ELSE IF trail /\ ~HasWild(SubSeq(p, 1, n - 1))
             THEN [kind |-> "Prefix", body |-> SubSeq(p, 1, n - 1)]
        ELSE [kind |-> "Pattern", body |-> p]

Normalize(s) == ToLower(StripTrailingDot(s))

SyntaxError(p) == Normalize(Classify(p).body) = <<>>

NewPatternMatcher == <<>>

\* PatternMatcher.Add: the matcher with the rule stored; the caller asks
\* SyntaxError first.
MatcherAdd(m, pattern, gate, position) ==
    Append(m, [kind |-> Classify(pattern).kind,
               body |-> Normalize(Classify(pattern).body),
               raw  |-> pattern,
               gate |-> gate,
               line |-> position])

RECURSIVE GlobMatch(_, _)
GlobMatch(pat, s) ==
    IF pat = <<>> THEN s = <<>>
    ELSE IF Head(pat) = "*"
         THEN GlobMatch(Tail(pat), s) \/ (s # <<>> /\ GlobMatch(pat, Tail(s)))
    ELSE IF s = <<>> THEN FALSE
    ELSE IF Head(pat) = "?" THEN GlobMatch(Tail(pat), Tail(s))
    ELSE Head(pat) = Head(s) /\ GlobMatch(Tail(pat), Tail(s))

Contains(s, sub) ==
    \E i \in 1..(Len(s) + 1) :
        i + Len(sub) - 1 <= Len(s) /\ SubSeq(s, i, i + Len(sub) - 1) = sub

RuleMatches(r, name) ==
    CASE r.kind = "Exact" -> name = r.body
      [] r.kind = "Suffix" ->
            \/ name = r.body
            \/ /\ Len(name) > Len(r.body)
               /\ HasSuffix(name, r.body)
               /\ name[Len(name) - Len(r.body)] = "."
      [] r.kind = "Prefix" -> HasPrefix(name, r.body)
      [] r.kind = "Substring" -> Contains(name, r.body)
      [] OTHER -> GlobMatch(r.body, name)

KindOrder == <<"Exact", "Suffix", "Prefix", "Substring", "Pattern">>

\* The index in m of the winning rule for name, 0 when none matches: the
\* first kind of KindOrder with a match, and the first-inserted rule of it.
Winner(m, name) ==
    LET hits(k) == {i \in 1..Len(m) : m[i].kind = k /\ RuleMatches(m[i], name)}
        ks == {j \in 1..Len(KindOrder) : hits(KindOrder[j]) # {}}
    IN  IF ks = {} THEN 0
        ELSE LET j == CHOOSE x \in ks : \A y \in ks : x <= y
                 hs0 == hits(KindOrder[j])
             IN  CHOOSE x \in hs0 : \A y \in hs0 : x <= y

\* PatternMatcher.Eval: (reject, reason, xweeklyRanges), and the rule's line.
MatcherEval(m, name) ==
    LET w == Winner(m, name)
    IN  IF w = 0
        THEN [reject |-> FALSE, reason |-> <<>>, gate |-> NoGate, line |-> 0]
        ELSE [reject |-> TRUE, reason |-> m[w].raw, gate |-> m[w].gate,
              line |-> m[w].line]

(***************************************************************************)
(* PluginBlockName.Init                                                    *)
(***************************************************************************)
FileLines(bin) == Split(bin, NL)

\* LoadLine without the `continue` after the "Unexpected @" error: the line
\* goes on to the matcher.
LoadLineNoContinue(st, rawLine, lineNo) ==
    LET line0 == TrimSpace(rawLine)
        call == [pattern |-> line0, gate |-> NoGate, position |-> lineNo + 1]
    IN  IF Len(line0) = 0 \/ HasPrefix(line0, <<"#">>) THEN st
        ELSE [matcher |-> IF SyntaxError(line0) THEN st.matcher
                          ELSE MatcherAdd(st.matcher, line0, NoGate, lineNo + 1),
              submitted |-> Append(st.submitted, call),
              errlog |-> st.errlog]

\* LoadLine dropping the rule whose time range is not in the catalog.
LoadLineDropUnknown(st, rawLine, lineNo) ==
    LET line0 == TrimSpace(rawLine)
        parts == Split(line0, "@")
        line == IF Len(parts) = 2 THEN TrimSpace(parts[1]) ELSE line0
        timeRangeName == IF Len(parts) = 2 THEN TrimSpace(parts[2]) ELSE <<>>
        known == timeRangeName \in DOMAIN AllWeeklyRanges
        weeklyRanges == IF Len(timeRangeName) > 0 /\ known
                        THEN Gate(AllWeeklyRanges[timeRangeName])
                        ELSE NoGate
        call == [pattern |-> line, gate |-> weeklyRanges, position |-> lineNo + 1]
    IN  IF Len(line0) = 0 \/ HasPrefix(line0, <<"#">>) THEN st
        ELSE IF Len(parts) > 2 \/ (Len(timeRangeName) > 0 /\ ~known)
             THEN [st EXCEPT !.errlog =
                      Append(@, [msg |-> "Skipped", line |-> 1 + lineNo])]
        ELSE IF SyntaxError(line)
             THEN [st EXCEPT !.submitted = Append(@, call)]
        ELSE [matcher |-> MatcherAdd(st.matcher, line, weeklyRanges, lineNo + 1),
              submitted |-> Append(st.submitted, call),
              errlog |-> st.errlog]

\* One iteration of the loop over the lines of the rule file: st is the
\* loader's local state, lineNo the 0-based index of the line.
LoadLine(st, rawLine, lineNo) ==
    LET line0 == TrimSpace(rawLine)
        parts == Split(line0, "@")
        line == IF Len(parts) = 2 THEN TrimSpace(parts[1]) ELSE line0
        timeRangeName == IF Len(parts) = 2 THEN TrimSpace(parts[2]) ELSE <<>>
        known == timeRangeName \in DOMAIN AllWeeklyRanges
        weeklyRanges == IF Len(timeRangeName) > 0 /\ known
                        THEN Gate(AllWeeklyRanges[timeRangeName])
                        ELSE NoGate
        errs1 == IF Len(timeRangeName) > 0 /\ ~known
                 THEN Append(st.errlog, [msg |-> "Time range not found",
                                         line |-> 1 + lineNo])
                 ELSE st.errlog
        call == [pattern |-> line, gate |-> weeklyRanges, position |-> lineNo + 1]
    IN  IF Len(line0) = 0 \/ HasPrefix(line0, <<"#">>) THEN st
        ELSE IF Len(parts) > 2
             THEN [st EXCEPT !.errlog =
                      Append(@, [msg |-> "Unexpected @ character",
                                 line |-> 1 + lineNo])]
        ELSE IF SyntaxError(line)
             THEN [matcher |-> st.matcher,
                   submitted |-> Append(st.submitted, call),
                   errlog |-> Append(errs1, [msg |-> "Syntax error",
                                             line |-> lineNo + 1])]
        ELSE [matcher |-> MatcherAdd(st.matcher, line, weeklyRanges, lineNo + 1),
              submitted |-> Append(st.submitted, call),
              errlog |-> errs1]

LoaderStart ==
    [matcher |-> NewPatternMatcher, submitted |-> <<>>, errlog |-> <<>>]

RECURSIVE LoadFrom(_, _, _)
LoadFrom(st, lines, i) ==
    IF i >= Len(lines) THEN st
    ELSE LoadFrom(LoadLine(st, lines[i + 1], i), lines, i + 1)

\* The whole loop, for a state in which Init has already returned.
LoadRules(bin) == LoadFrom(LoaderStart, FileLines(bin), 0)

NoEngine == [set |-> FALSE, patternMatcher |-> <<>>, logger |-> FALSE,
             format |-> ""]

Published(m) == [set |-> TRUE, patternMatcher |-> m, logger |-> FALSE,
                 format |-> ""]

\* ReadTextFile and the construction of xBlockedNames.
InitRead ==
    /\ ~exited
    /\ initPc = "read"
    /\ initPc' = IF proxy.fileOk THEN "loop" ELSE "failed"
    /\ UNCHANGED <<proxy, lineIdx, xBlockedNames, submitted, errlog,
                   blockedNames, hs, sinkLock, auditOut, exited>>

InitLine ==
    /\ ~exited
    /\ initPc = "loop"
    /\ lineIdx < Len(FileLines(proxy.bin))
    /\ LET st == LoadLine([matcher |-> xBlockedNames, submitted |-> submitted,
                           errlog |-> errlog],
                          FileLines(proxy.bin)[lineIdx + 1], lineIdx)
       IN  /\ xBlockedNames' = st.matcher
           /\ submitted' = st.submitted
           /\ errlog' = st.errlog
    /\ lineIdx' = lineIdx + 1
    /\ UNCHANGED <<proxy, initPc, blockedNames, hs, sinkLock, auditOut, exited>>

\* blockedNames = &xBlockedNames, and the return when no log file is set.
InitPublish ==
    /\ ~exited
    /\ initPc = "loop"
    /\ lineIdx >= Len(FileLines(proxy.bin))
    /\ blockedNames' = Published(xBlockedNames)
    /\ initPc' = IF proxy.blockNameLogFile = "" THEN "done" ELSE "setLogger"
    /\ UNCHANGED <<proxy, lineIdx, xBlockedNames, submitted, errlog, hs,
                   sinkLock, auditOut, exited>>

InitSetLogger ==
    /\ ~exited
    /\ initPc = "setLogger"
    /\ blockedNames' = [blockedNames EXCEPT !.logger = TRUE]
    /\ initPc' = "setFormat"
    /\ UNCHANGED <<proxy, lineIdx, xBlockedNames, submitted, errlog, hs,
                   sinkLock, auditOut, exited>>

InitSetFormat ==
    /\ ~exited
    /\ initPc = "setFormat"
    /\ blockedNames' = [blockedNames EXCEPT !.format = proxy.blockNameFormat]
    /\ initPc' = "done"
    /\ UNCHANGED <<proxy, lineIdx, xBlockedNames, submitted, errlog, hs,
                   sinkLock, auditOut, exited>>

InitSteps ==
    InitRead \/ InitLine \/ InitPublish \/ InitSetLogger \/ InitSetFormat

(***************************************************************************)
(* Request handlers                                                        *)
(***************************************************************************)
aliasesLimit == 8

NumHandlers == 2

Handlers == 1..NumHandlers

NoAlias == [set |-> FALSE, name |-> <<>>]

NoLine == [format |-> "", host |-> 0, qname |-> <<>>, message |-> <<>>]

Idle ==
    [pc |-> "idle", kind |-> "none", whitelisted |-> FALSE,
     questions |-> <<>>, answers |-> <<>>,
     action |-> "pass", returnCode |-> "pass",
     arg |-> <<>>, aliasFor |-> NoAlias, qName |-> <<>>, reason |-> <<>>,
     matched |-> FALSE, gate |-> NoGate, matchLine |-> 0,
     timeRead |-> FALSE, now |-> 0, reject |-> FALSE,
     loggerSeen |-> FALSE, line |-> NoLine,
     blocked |-> FALSE, err |-> "nil",
     idx |-> 0, aliasesLeft |-> 0, checked |-> <<>>]

QUOTE == "\""

\* StringQuote: the text between double quotes (the model's alphabet holds no
\* character that needs an escape).
StringQuote(s) == <<QUOTE>> \o s \o <<QUOTE>>

\* pluginsState.clientAddr of handler h, as a string.
ClientIPStr(h) == h

\* What check computes before it looks at the clock: the normalized name,
\* the matcher's answer and the reason.
CheckLookup(m, qNameArg, aliasFor) ==
    LET qName == ToLower(StripTrailingDot(qNameArg))
        r == MatcherEval(m, qName)
    IN  [qName |-> qName,
         matched |-> r.reject,
         reason |-> IF aliasFor.set
                    THEN r.reason \o <<" ", "(", "alias", " ", "for", " ", "[">>
                         \o StripTrailingDot(aliasFor.name) \o <<"]", ")">>
                    ELSE r.reason,
         gate |-> r.gate,
         matchLine |-> r.line]

\* Whether check reads the clock: a match whose rule carries a time gate.
ReadsClock(matched, gate) == matched /\ gate.set

\* CheckReject without the time gate.
CheckRejectAlways(matched, gate, now) == matched

\* check's verdict: reject unless the gate is set and does not match now.
CheckReject(matched, gate, now) ==
    IF matched
    THEN IF gate.set /\ ~WeeklyRangesMatch(gate.ranges, now) THEN FALSE ELSE TRUE
    ELSE FALSE

\* The audit line, field by field; its time field (time.Now() at the write)
\* is left out, no property here reads it.
AuditLine(format, h, qName, reason) ==
    [format |-> format, host |-> ClientIPStr(h),
     qname |-> StringQuote(qName), message |-> StringQuote(reason)]

\* Bypass without the test of the whitelisted flag.
BypassNoWhitelist(engineSet, whitelisted, questions) ==
    ~engineSet \/ Len(questions) # 1

\* The early returns shared by both Eval methods: no engine, a whitelisted
\* session, or a message that does not hold exactly one question.
Bypass(engineSet, whitelisted, questions) ==
    ~engineSet \/ whitelisted \/ Len(questions) # 1

\* PluginBlockName.Eval up to the call of check.
QueryStart(h, msgs) ==
    /\ ~exited
    /\ hs[h].pc = "idle"
    /\ \E msg \in msgs, wl \in BOOLEAN :
         LET in == [hs[h] EXCEPT !.kind = "query", !.whitelisted = wl,
                                 !.questions = msg.questions]
         IN  hs' = [hs EXCEPT ![h] =
                 IF Bypass(blockedNames.set, wl, msg.questions)
                 THEN [in EXCEPT !.pc = "done"]
                 ELSE [in EXCEPT !.pc = "check", !.arg = msg.questions[1],
                                 !.aliasFor = NoAlias]]
    /\ UNCHANGED <<proxy, initPc, lineIdx, xBlockedNames, submitted, errlog,
                   blockedNames, sinkLock, auditOut, exited>>

\* PluginBlockNameResponse.Eval up to its loop.
ResponseStart(h, msgs) ==
    /\ ~exited
    /\ hs[h].pc = "idle"
    /\ \E msg \in msgs, wl \in BOOLEAN :
         LET in == [hs[h] EXCEPT !.kind = "response", !.whitelisted = wl,
                                 !.questions = msg.questions,
                                 !.answers = msg.answers]
         IN  hs' = [hs EXCEPT ![h] =
                 IF Bypass(blockedNames.set, wl, msg.questions)
                 THEN [in EXCEPT !.pc = "done"]
                 ELSE [in EXCEPT !.pc = "loop",
                                 !.aliasFor = [set |-> TRUE,
                                               name |-> msg.questions[1]],
                                 !.aliasesLeft = aliasesLimit,
                                 !.idx = 1]]
    /\ UNCHANGED <<proxy, initPc, lineIdx, xBlockedNames, submitted, errlog,
                   blockedNames, sinkLock, auditOut, exited>>

\* Whether the walker hands the answer record to check.
IsWalked(a) == ~(a.class # "IN" \/ a.rrtype # "CNAME")

\* One turn of the loop over msg.Answer: the end of the loop, a record
\* skipped, or the call of check on a CNAME target.
RespLoop(h) ==
    /\ ~exited
    /\ hs[h].pc = "loop"
    /\ hs' = [hs EXCEPT ![h] =
         IF @.idx > Len(@.answers) THEN [@ EXCEPT !.pc = "done"]
         ELSE IF ~IsWalked(@.answers[@.idx]) THEN [@ EXCEPT !.idx = @ + 1]
         ELSE [@ EXCEPT !.pc = "check",
                        !.arg = hs[h].answers[hs[h].idx].target,
                        !.checked = Append(@, hs[h].idx)]]
    /\ UNCHANGED <<proxy, initPc, lineIdx, xBlockedNames, submitted, errlog,
                   blockedNames, sinkLock, auditOut, exited>>

\* AfterCheck testing the budget before it is decremented.
AfterCheckLate(s) ==
    IF s.blocked \/ s.err # "nil" THEN [s EXCEPT !.pc = "done"]
    ELSE IF s.aliasesLeft = 0 THEN [s EXCEPT !.pc = "done"]
    ELSE [s EXCEPT !.aliasesLeft = @ - 1, !.idx = @ + 1, !.pc = "loop"]

\* The walker after check has returned.
AfterCheck(s) ==
    IF s.blocked \/ s.err # "nil" THEN [s EXCEPT !.pc = "done"]
    ELSE IF s.aliasesLeft - 1 = 0
         THEN [s EXCEPT !.aliasesLeft = @ - 1, !.pc = "done"]
    ELSE [s EXCEPT !.aliasesLeft = @ - 1, !.idx = @ + 1, !.pc = "loop"]

RespReturn(h) ==
    /\ ~exited
    /\ hs[h].pc = "ret"
    /\ hs[h].kind = "response"
    /\ hs' = [hs EXCEPT ![h] = AfterCheck(@)]
    /\ UNCHANGED <<proxy, initPc, lineIdx, xBlockedNames, submitted, errlog,
                   blockedNames, sinkLock, auditOut, exited>>

QueryReturn(h) ==
    /\ ~exited
    /\ hs[h].pc = "ret"
    /\ hs[h].kind = "query"
    /\ hs' = [hs EXCEPT ![h].pc = "done"]
    /\ UNCHANGED <<proxy, initPc, lineIdx, xBlockedNames, submitted, errlog,
                   blockedNames, sinkLock, auditOut, exited>>

\* check, from its entry to the decision written to pluginsState.
CheckMatch(h) ==
    /\ ~exited
    /\ hs[h].pc = "check"
    /\ LET l == CheckLookup(blockedNames.patternMatcher, hs[h].arg, hs[h].aliasFor)
           clock == ReadsClock(l.matched, l.gate)
       IN  \E now \in IF clock THEN Instants ELSE {0} :
             LET reject == CheckReject(l.matched, l.gate, now)
                 s1 == [hs[h] EXCEPT !.qName = l.qName, !.reason = l.reason,
                                     !.matched = l.matched, !.gate = l.gate,
                                     !.matchLine = l.matchLine,
                                     !.timeRead = clock, !.now = now,
                                     !.reject = reject]
             IN  hs' = [hs EXCEPT ![h] =
                     IF ~reject
                     THEN [s1 EXCEPT !.blocked = FALSE, !.err = "nil",
                                     !.pc = "ret"]
                     ELSE [s1 EXCEPT !.action = "reject",
                                     !.returnCode = "reject",
                                     !.pc = "logger"]]
    /\ UNCHANGED <<proxy, initPc, lineIdx, xBlockedNames, submitted, errlog,
                   blockedNames, sinkLock, auditOut, exited>>

\* CheckLogger returning true before the audit block is run.
CheckLoggerSkip(h) ==
    /\ ~exited
    /\ hs[h].pc = "logger"
    /\ hs' = [hs EXCEPT ![h] =
         [@ EXCEPT !.loggerSeen = blockedNames.logger, !.blocked = TRUE,
                   !.err = "nil", !.pc = "ret"]]
    /\ UNCHANGED <<proxy, initPc, lineIdx, xBlockedNames, submitted, errlog,
                   blockedNames, sinkLock, auditOut, exited>>

\* if blockedNames.logger != nil
CheckLogger(h) ==
    /\ ~exited
    /\ hs[h].pc = "logger"
    /\ hs' = [hs EXCEPT ![h] =
         IF blockedNames.logger
         THEN [@ EXCEPT !.loggerSeen = TRUE, !.pc = "fmt55"]
         ELSE [@ EXCEPT !.blocked = TRUE, !.err = "nil", !.pc = "ret"]]
    /\ UNCHANGED <<proxy, initPc, lineIdx, xBlockedNames, submitted, errlog,
                   blockedNames, sinkLock, auditOut, exited>>

\* if blockedNames.format == "tsv"
CheckFormat55(h) ==
    /\ ~exited
    /\ hs[h].pc = "fmt55"
    /\ hs' = [hs EXCEPT ![h] =
         IF blockedNames.format = "tsv"
         THEN [@ EXCEPT !.line = AuditLine("tsv", h, hs[h].qName,
                                           hs[h].reason),
                        !.pc = "write"]
         ELSE [@ EXCEPT !.pc = "fmt61"]]
    /\ UNCHANGED <<proxy, initPc, lineIdx, xBlockedNames, submitted, errlog,
                   blockedNames, sinkLock, auditOut, exited>>

\* else if blockedNames.format == "ltsv" ... else dlog.Fatalf
CheckFormat61(h) ==
    /\ ~exited
    /\ hs[h].pc = "fmt61"
    /\ hs' = [hs EXCEPT ![h] =
         IF blockedNames.format = "ltsv"
         THEN [@ EXCEPT !.line = AuditLine("ltsv", h, hs[h].qName,
                                           hs[h].reason),
                        !.pc = "write"]
         ELSE [@ EXCEPT !.pc = "fatal"]]
    /\ exited' = (blockedNames.format # "ltsv")
    /\ UNCHANGED <<proxy, initPc, lineIdx, xBlockedNames, submitted, errlog,
                   blockedNames, sinkLock, auditOut>>

\* CheckWriteBegin putting the line out in two calls of logger.Write: the
\* sink's lock is free again between the two halves.
CheckWriteBeginSplit(h) ==
    /\ ~exited
    /\ hs[h].pc = "write"
    /\ sinkLock = 0
    /\ auditOut' = Append(auditOut, [writer |-> h, part |-> "head",
                                     line |-> hs[h].line])
    /\ hs' = [hs EXCEPT ![h].pc = "writing"]
    /\ UNCHANGED <<proxy, initPc, lineIdx, xBlockedNames, submitted, errlog,
                   blockedNames, sinkLock, exited>>

\* The second test of blockedNames.logger, and logger.Write taking the
\* sink's lock and putting out the first bytes of the line.
CheckWriteBegin(h) ==
    /\ ~exited
    /\ hs[h].pc = "write"
    /\ blockedNames.logger => sinkLock = 0
    /\ IF blockedNames.logger
       THEN /\ sinkLock' = h
            /\ auditOut' = Append(auditOut, [writer |-> h, part |-> "head",
                                             line |-> hs[h].line])
            /\ hs' = [hs EXCEPT ![h].pc = "writing"]
       ELSE /\ hs' = [hs EXCEPT ![h].blocked = FALSE,
                                ![h].err = "Log file not initialized",
                                ![h].pc = "ret"]
            /\ UNCHANGED <<sinkLock, auditOut>>
    /\ UNCHANGED <<proxy, initPc, lineIdx, xBlockedNames, submitted, errlog,
                   blockedNames, exited>>

\* logger.Write putting out the rest of the line and releasing the lock,
\* and check returning true.
CheckWriteEnd(h) ==
    /\ ~exited
    /\ hs[h].pc = "writing"
    /\ sinkLock' = 0
    /\ auditOut' = Append(auditOut, [writer |-> h, part |-> "tail",
                                     line |-> hs[h].line])
    /\ hs' = [hs EXCEPT ![h].blocked = TRUE, ![h].err = "nil", ![h].pc = "ret"]
    /\ UNCHANGED <<proxy, initPc, lineIdx, xBlockedNames, submitted, errlog,
                   blockedNames, exited>>

CheckSteps(h) ==
    \/ CheckMatch(h) \/ CheckLogger(h) \/ CheckFormat55(h) \/ CheckFormat61(h)
    \/ CheckWriteBegin(h) \/ CheckWriteEnd(h)

(***************************************************************************)
(* Inputs                                                                  *)
(***************************************************************************)
CfgOf(fileOk, bin, logFile, format) ==
    [fileOk |-> fileOk, bin |-> bin, blockNameLogFile |-> logFile,
     blockNameFormat |-> format]

RuleFileA ==
    Join(<< <<"#", " ", "x">>,
            <<"b", ".", "a">>,
            <<"=", "c", ".", "a", " ", "@", "w">>,
            <<"q", "*", " ", "@", "x">>,
            <<"t", "@", "@", "w">> >>, NL)

RuleFileB ==
    Join(<< <<"*", "t", "*", "@", "n">>,
            <<" ", "a", "?", "c", " ">>,
            <<"*">>,
            <<"B", ".", "a", ".", " ", "@", "w">> >>, NL)

RuleFileC == <<"b", ".", "a">>

LogConfigs ==
    {<<"", "">>, <<"block.log", "tsv">>, <<"block.log", "ltsv">>,
     <<"block.log", "json">>}

Proxies ==
    {CfgOf(TRUE, b, lc[1], lc[2]) : b \in {RuleFileA, RuleFileB}, lc \in LogConfigs}
    \cup {CfgOf(FALSE, <<>>, "", "")}

QueryNames ==
    { <<"B", ".", "a", ".">>, <<"x", ".", "b", ".", "a">>, <<"x", "b", ".", "a">>,
      <<"c", ".", "a">>, <<"q", "q">>, <<"t">>, <<"a", "b", "c">>, <<"z">> }

MsgOf(questions, answers) == [questions |-> questions, answers |-> answers]

QueryMsgs ==
    {MsgOf(<<n>>, <<>>) : n \in QueryNames}
    \cup {MsgOf(<<>>, <<>>), MsgOf(<< <<"z">>, <<"b", ".", "a">> >>, <<>>)}

CnameIN(t) == [class |-> "IN", rrtype |-> "CNAME", target |-> t]

CnameCH(t) == [class |-> "CH", rrtype |-> "CNAME", target |-> t]

RecA == [class |-> "IN", rrtype |-> "A", target |-> <<>>]

ResponseMsgs ==
    { MsgOf(<< <<"Q", ".", "a", ".">> >>, << CnameIN(<<"x", ".", "B", ".", "a", ".">>) >>),
      MsgOf(<< <<"Q", ".", "a", ".">> >>, << RecA, CnameIN(<<"c", ".", "a">>) >>),
      MsgOf(<< <<"z">> >>, << CnameCH(<<"b", ".", "a">>), CnameIN(<<"z">>),
                              CnameIN(<<"q", "q">>) >>),
      MsgOf(<< <<"z">> >>, << CnameIN(<<"t">>), CnameIN(<<"b", ".", "a">>) >>),
      MsgOf(<< <<"z">> >>, <<>>),
      MsgOf(<<>>, << CnameIN(<<"b", ".", "a">>) >>) }

InitCommon ==
    /\ initPc = "read"
    /\ lineIdx = 0
    /\ xBlockedNames = NewPatternMatcher
    /\ submitted = <<>>
    /\ errlog = <<>>
    /\ blockedNames = NoEngine
    /\ hs = [h \in Handlers |-> Idle]
    /\ sinkLock = 0
    /\ auditOut = <<>>
    /\ exited = FALSE

(***************************************************************************)
(* Spec: Init and one handler, side by side.                               *)
(***************************************************************************)
Init == proxy \in Proxies /\ InitCommon

Next ==
    \/ InitSteps
    \/ QueryStart(1, QueryMsgs)
    \/ ResponseStart(1, ResponseMsgs)
    \/ RespLoop(1)
    \/ RespReturn(1)
    \/ QueryReturn(1)
    \/ CheckSteps(1)

Spec == Init /\ [][Next]_vars

(***************************************************************************)
(* SpecConc: Init and NumHandlers query handlers, side by side.            *)
(***************************************************************************)
ConcProxies ==
    {CfgOf(TRUE, RuleFileC, "block.log", f) : f \in {"tsv", "ltsv"}}

ConcMsgs == {MsgOf(<< <<"b", ".", "a">> >>, <<>>), MsgOf(<< <<"z">> >>, <<>>)}

InitConc == proxy \in ConcProxies /\ InitCommon

NextConc ==
    \/ InitSteps
    \/ \E h \in Handlers :
         QueryStart(h, ConcMsgs) \/ QueryReturn(h) \/ CheckSteps(h)

SpecConc == InitConc /\ [][NextConc]_vars

(***************************************************************************)
(* SpecWalk: one response handler on long answer sections, Init returned.  *)
(***************************************************************************)
MaxAnswers == 10

\* An answer section of n records: blocked CNAMEs at b1 and b2, an A record
\* at o, a CNAME of class CH at c (position 0: none), passing CNAMEs elsewhere.
MkAnswers(n, b1, b2, o, c) ==
    [i \in 1..n |->
        IF i = o THEN RecA
        ELSE IF i = c THEN CnameCH(<<"b", ".", "a">>)
        ELSE IF i = b1 \/ i = b2 THEN CnameIN(<<"x", ".", "b", ".", "a">>)
        ELSE CnameIN(<<"z">>)]

WalkShapes ==
    UNION { UNION { UNION { {<<n, b1, b2, o, c>> : o \in 0..n, c \in 0..n} :
                            b2 \in {0} \cup ((b1 + 1)..n) } :
                    b1 \in 0..n } :
            n \in 0..MaxAnswers }

WalkMsgs ==
    {MsgOf(<< <<"q">> >>, MkAnswers(w[1], w[2], w[3], w[4], w[5])) :
        w \in WalkShapes}

InitWalk ==
    /\ proxy = CfgOf(TRUE, RuleFileC, "", "")
    /\ initPc = "done"
    /\ lineIdx = Len(FileLines(proxy.bin))
    /\ xBlockedNames = LoadRules(proxy.bin).matcher
    /\ submitted = LoadRules(proxy.bin).submitted
    /\ errlog = LoadRules(proxy.bin).errlog
    /\ blockedNames = Published(xBlockedNames)
    /\ hs = [h \in Handlers |-> Idle]
    /\ sinkLock = 0
    /\ auditOut = <<>>
    /\ exited = FALSE

NextWalk ==
    \/ ResponseStart(1, WalkMsgs)
    \/ RespLoop(1)
    \/ CheckMatch(1)
    \/ CheckLogger(1)
    \/ RespReturn(1)

SpecWalk == InitWalk /\ [][NextWalk]_vars

(***************************************************************************)
(* SpecLoad: Init alone, on every rule file of up to MaxLines lines.       *)
(***************************************************************************)
MaxLines == 3

LinePool ==
    { <<>>,
      <<" ", "#", "a">>,
      <<"#", "a", "@", "@">>,
      <<"a">>,
      <<" ", "a", " ">>,
      <<"a", "@", "w">>,
      <<"b", " ", "@", " ", "n", " ">>,
      <<"a", "@", "x">>,
      <<"a", "@", "@", "w">>,
      <<"a", "@", "w", "@">>,
      <<"@", "w">>,
      <<"a", "@">>,
      <<"*">>,
      <<"=", "a">> }

RuleFiles ==
    UNION { {Join(ls, NL) : ls \in [1..n -> LinePool]} : n \in 0..MaxLines }

InitLoad ==
    /\ proxy \in {CfgOf(TRUE, b, "block.log", "tsv") : b \in RuleFiles}
                 \cup {CfgOf(FALSE, <<>>, "", "")}
    /\ InitCommon

NextLoad == InitSteps

SpecLoad == InitLoad /\ [][NextLoad]_vars

(***************************************************************************)
(* Properties                                                              *)
(***************************************************************************)
\* The handler has been through check's decision at least once.
Decided(s) == s.arg # <<>> /\ s.pc \notin {"idle", "check"}

\* The rejecting check of the handler has returned true to its caller.
ReturnedReject(s) == s.blocked /\ s.pc \in {"ret", "done"}

\* The handler's line, whole, in the audit output.
LineOf(h) ==
    {i \in 1..Len(auditOut) :
        /\ auditOut[i].writer = h
        /\ auditOut[i].part = "head"
        /\ i < Len(auditOut)
        /\ auditOut[i + 1] = [auditOut[i] EXCEPT !.part = "tail"]}

\* C1: a query of a non-whitelisted session with one question, evaluated on
\* a published engine, ends with action and return code reject exactly when
\* the matcher reports a match for the normalized name and the matched rule
\* has no time gate or its gate matches the instant check read; otherwise
\* the decision stays pass.
C1_RejectIff ==
    \A h \in Handlers :
        LET s == hs[h]
        IN  (s.kind = "query" /\ Decided(s)) =>
              LET name == ToLower(StripTrailingDot(s.questions[1]))
                  r == MatcherEval(blockedNames.patternMatcher, name)
                  expected == /\ r.reject
                              /\ (~r.gate.set
                                  \/ WeeklyRangesMatch(r.gate.ranges, s.now))
              IN  /\ blockedNames.set /\ ~s.whitelisted /\ Len(s.questions) = 1
                  /\ IF expected
                     THEN s.action = "reject" /\ s.returnCode = "reject"
                     ELSE s.action = "pass" /\ s.returnCode = "pass"

C1_Witness ==
    \E h \in Handlers :
        /\ hs[h].kind = "query" /\ hs[h].pc = "done"
        /\ hs[h].matched /\ hs[h].gate.set /\ hs[h].action = "reject"

\* C2: a handler whose session is whitelisted returns at once: its decision
\* stays pass, it calls check on nothing and writes no audit record.
C2_WhitelistedNoEffect ==
    \A h \in Handlers :
        hs[h].whitelisted =>
            /\ hs[h].pc = "done"
            /\ hs[h].action = "pass" /\ hs[h].returnCode = "pass"
            /\ hs[h].arg = <<>> /\ hs[h].checked = <<>>
            /\ \A i \in 1..Len(auditOut) : auditOut[i].writer # h

C2_Witness ==
    \E h \in Handlers :
        /\ hs[h].whitelisted /\ hs[h].kind = "response" /\ hs[h].pc = "done"
        /\ blockedNames.set
        /\ \E i \in 1..Len(hs[h].answers) :
             LET a == hs[h].answers[i]
                 r == MatcherEval(blockedNames.patternMatcher, Normalize(a.target))
             IN  a.class = "IN" /\ a.rrtype = "CNAME" /\ r.reject /\ ~r.gate.set

\* The answer records the walker is to hand to check.
Walkable(answers) ==
    {i \in 1..Len(answers) :
        answers[i].class = "IN" /\ answers[i].rrtype = "CNAME"}

TargetBlocked(a) ==
    LET r == MatcherEval(blockedNames.patternMatcher, Normalize(a.target))
    IN  r.reject /\ ~r.gate.set

\* C3: the walker checks only answer records of class IN and type CNAME, in
\* answer order and without leaving one out, never more than 8 of them and
\* none after a blocked one; it stops only on a block, after 8 checks or at
\* the end of the answers, so skipped records do not use up the budget.
C3_WalkerBudget ==
    \A h \in Handlers :
        LET s == hs[h]
            c == s.checked
            W == Walkable(s.answers)
        IN  s.kind = "response" =>
              /\ Len(c) <= 8
              /\ \A j \in 1..Len(c) :
                   /\ c[j] \in W
                   /\ j > 1 => c[j - 1] < c[j]
                   /\ \A i \in W : i < c[j] => \E k \in 1..(j - 1) : c[k] = i
                   /\ j < Len(c) => ~TargetBlocked(s.answers[c[j]])
              /\ (s.pc = "done" /\ ~s.whitelisted /\ Len(s.questions) = 1) =>
                   \/ Len(c) = 8
                   \/ c # <<>> /\ TargetBlocked(s.answers[c[Len(c)]])
                   \/ \A i \in W : \E k \in 1..Len(c) : c[k] = i

C3_Witness ==
    \E h \in Handlers :
        /\ hs[h].kind = "response" /\ hs[h].pc = "done"
        /\ Len(hs[h].checked) = 8
        /\ hs[h].checked[8] > 8
        /\ Cardinality(Walkable(hs[h].answers)) > 8

\* C4: a handler that is evaluating a request has seen an engine that is
\* fully initialised: when a log file is configured, the engine's logger is
\* set and its format is the configured one.
C4_HappensBefore ==
    \A h \in Handlers :
        hs[h].pc \in {"check", "logger", "fmt55", "fmt61", "write", "writing",
                      "loop", "ret"} =>
            (proxy.blockNameLogFile # "" =>
                blockedNames.logger /\ blockedNames.format = proxy.blockNameFormat)

Audited == {h \in Handlers : hs[h].loggerSeen /\ ReturnedReject(hs[h])}

C7_FatalAtInit ==
    /\ (proxy.blockNameLogFile # ""
        /\ proxy.blockNameFormat \notin {"tsv", "ltsv"}) => initPc # "done"
    /\ initPc = "done" => \A h \in Handlers : hs[h].pc # "fatal"

\* What a line of the rule file is, read off its characters.
Blank(l) == \A i \in 1..Len(l) : l[i] \in {" ", "\t"}

Comment(l) ==
    \E i \in 1..Len(l) :
        l[i] = "#" /\ \A j \in 1..(i - 1) : l[j] \in {" ", "\t"}

Ats(l) == Cardinality({i \in 1..Len(l) : l[i] = "@"})

Kept(lines) ==
    {i \in 1..Len(lines) :
        ~Blank(lines[i]) /\ ~Comment(lines[i]) /\ Ats(lines[i]) <= 1}

Loaded == initPc \in {"setLogger", "setFormat", "done"}

\* C8: when the loop is over, the calls of the matcher's Add are, in file
\* order and with their 1-based line numbers, exactly the lines that are not
\* blank, not comments and hold at most one @; the rules stored are those of
\* the calls without a syntax error, so a bad line adds no rule and hides no
\* other line; and the engine is published, Init having failed on no line.
C8_BestEffortLoad ==
    LET lines == FileLines(proxy.bin)
        m == blockedNames.patternMatcher
        good == {k \in 1..Len(submitted) : ~SyntaxError(submitted[k].pattern)}
    IN  /\ proxy.fileOk => initPc # "failed"
        /\ Loaded =>
             /\ blockedNames.set
             /\ {submitted[k].position : k \in 1..Len(submitted)} = Kept(lines)
             /\ \A k \in 2..Len(submitted) :
                  submitted[k - 1].position < submitted[k].position
             /\ {m[k].line : k \in 1..Len(m)} = {submitted[k].position : k \in good}
             /\ Len(m) = Cardinality(good)
             /\ \A k \in 2..Len(m) : m[k - 1].line < m[k].line

C8_Witness ==
    LET lines == FileLines(proxy.bin)
    IN  /\ initPc = "done"
        /\ Len(lines) = 3
        /\ Ats(lines[1]) > 1
        /\ lines[2] = <<"*">>
        /\ Len(blockedNames.patternMatcher) = 1
        /\ blockedNames.patternMatcher[1].line = 3

GatePatterns ==
    { <<"=", "c", ".", "a">>, <<"q", "*">>, <<"B", ".", "a", ".">> }

GateNames == { <<"w">>, <<"n">>, <<"x">> }

GatedLine(p, n) == p \o <<" ", "@">> \o n

UnknownGateLines ==
    {i \in 1..Len(FileLines(proxy.bin)) :
        \E p \in GatePatterns, n \in GateNames :
            /\ FileLines(proxy.bin)[i] = GatedLine(p, n)
            /\ n \notin DOMAIN AllWeeklyRanges}

\* C9: in the published engine every line `<pattern> @<name>` of the file
\* is a rule of that pattern, with the catalog's entry for <name> as its
\* gate, or with no gate when the catalog has no such entry; and a check won
\* by a rule of the second kind rejects without reading the clock.
C9_UnknownRangeUngated ==
    /\ blockedNames.set =>
         \A i \in 1..Len(FileLines(proxy.bin)) :
           \A p \in GatePatterns, n \in GateNames :
             FileLines(proxy.bin)[i] = GatedLine(p, n) =>
               \E k \in 1..Len(blockedNames.patternMatcher) :
                 LET r == blockedNames.patternMatcher[k]
                 IN  /\ r.line = i
                     /\ r.raw = p
                     /\ r.gate = IF n \in DOMAIN AllWeeklyRanges
                                 THEN [set |-> TRUE, ranges |-> AllWeeklyRanges[n]]
                                 ELSE [set |-> FALSE, ranges |-> <<>>]
    /\ \A h \in Handlers :
         (Decided(hs[h]) /\ hs[h].pc # "loop" /\ hs[h].matchLine \in UnknownGateLines) =>
             /\ hs[h].action = "reject" /\ hs[h].returnCode = "reject"
             /\ ~hs[h].timeRead

C9_Witness ==
    \E h \in Handlers :
        /\ hs[h].kind = "query" /\ hs[h].pc = "done"
        /\ hs[h].matchLine \in UnknownGateLines
        /\ hs[h].action = "reject"

\* C10: the reason of a rejection is the matched rule's text for a query,
\* and for a CNAME target that text followed by " (alias for [<name>])" with
\* <name> the question's name in lowercase and without its trailing dot; the
\* audited name is the normalized target.
C10_AliasReason ==
    \A h \in Handlers :
        LET s == hs[h]
        IN  (Decided(s) /\ s.reject) =>
              LET raw == CHOOSE t \in {blockedNames.patternMatcher[k].raw :
                                        k \in 1..Len(blockedNames.patternMatcher)} :
                            \E k \in 1..Len(blockedNames.patternMatcher) :
                                /\ blockedNames.patternMatcher[k].line = s.matchLine
                                /\ blockedNames.patternMatcher[k].raw = t
              IN  IF s.kind = "query"
                  THEN /\ s.reason = raw
                       /\ s.qName = Normalize(s.questions[1])
                  ELSE /\ s.reason = raw \o <<" ", "(", "alias", " ", "for", " ", "[">>
                                     \o Normalize(s.questions[1]) \o <<"]", ")">>
                       /\ s.qName = Normalize(s.arg)

====
